---- MODULE Spec2Model ----
(***************************************************************************)
(* Model of narrador_app.py: a Flask application with three routes, GET /, *)
(* GET /health and POST /api/generate-audio.  The module-level             *)
(* configuration (api_key, MODEL_TO_USE_FOR_TTS) is fixed at import time;  *)
(* request handlers run concurrently (one per request slot) and are split  *)
(* into steps at the points where a threaded server can interleave them.   *)
(* Text constants are the source's messages with the accents removed.      *)
(***************************************************************************)
EXTENDS Integers, Sequences, FiniteSets, TLC

\* ----------------------------------------------------------------- bounds
NumReq == 2          \* request slots handled over the life of the process
MaxAudioLen == 2     \* longest audio payload the upstream stub returns

Req == 1..NumReq
Bytes == {0, 255}

\* --------------------------------------------------------- python values
NONE == "<None>"     \* Python's None (os.environ.get / dict.get default)

Truthy(s) == s \notin {NONE, ""}

RECURSIVE SeqsUpTo(_)
SeqsUpTo(n) ==
    IF n = 0 THEN {<<>>}
    ELSE LET shorter == SeqsUpTo(n - 1)
         IN  shorter \cup {Append(s, b) : s \in {t \in shorter : Len(t) = n - 1}, b \in Bytes}

\* ----------------------------------------------------------- config
SUPPORTED_TTS_MODELS == {"gemini-2.5-pro-preview-tts", "gemini-2.5-flash-preview-tts"}

CURRENT_TTS_MODEL == "gemini-2.5-pro-preview-tts"

\* Values GEMINI_API_KEY can have in the process environment: unset, set to
\* the empty string, set to a key.
ApiKeys == {NONE, "", "k1"}

\* The module assigns MODEL_TO_USE_FOR_TTS once; its comments describe the
\* alternatives a deployment edits in (the flash model, a TTS_MODEL
\* environment variable), so the configured value ranges over a supported
\* alternative and an unsupported one besides the default.
ModelChoices == {CURRENT_TTS_MODEL, "gemini-2.5-flash-preview-tts", "gemini-pro"}

\* ----------------------------------------------------------- requests
\* A POST body as request.get_json() sees it.
\*   kind "malformed": get_json() raises (BadRequest)
\*   kind "null"     : get_json() returns None
\*   kind "array"    : a non-empty JSON value that is not an object
\*   kind "object"   : a JSON object; a field that is absent is NONE
Body(kind, text, voice, model) ==
    [kind |-> kind, text |-> text, voice |-> voice, model |-> model]

Bodies ==
    {Body("malformed", NONE, NONE, NONE), Body("null", NONE, NONE, NONE),
     Body("array", NONE, NONE, NONE)}
    \cup {Body("object", t, v, NONE) : t \in {NONE, "", "hello"}, v \in {NONE, "", "Kore"}}
    \cup {Body("object", NONE, NONE, "m"), Body("object", "ola", "Puck", NONE)}

NoBody == Body("none", NONE, NONE, NONE)

\* Outcome of the one call to genai.generate_content.
\*   kind "attr_error": the call raises AttributeError
\*   kind "error"     : the call raises another Exception
\*   kind "no_audio"  : a response without .audio.data
\*   kind "audio"     : a response with .audio.data, which is bytes
\*                      (data_kind "bytes"), None or a str
Outcome(kind, exc, data_kind, data) ==
    [kind |-> kind, exc |-> exc, data_kind |-> data_kind, data |-> data]

Outcomes ==
    {Outcome("attr_error", "module has no attribute generate_content", "", <<>>),
     Outcome("error", "deadline exceeded", "", <<>>),
     Outcome("no_audio", "", "", <<>>),
     Outcome("audio", "", "none", <<>>),
     Outcome("audio", "", "str", <<>>)}
    \cup {Outcome("audio", "", "bytes", d) : d \in SeqsUpTo(MaxAudioLen)}

NoOutcome == Outcome("pending", "", "", <<>>)

NoCall == [key |-> NONE, model |-> "", text |-> NONE, voice |-> NONE]

\* ----------------------------------------------------------- responses
Response(status, mimetype, json, data, text, headers) ==
    [status |-> status, mimetype |-> mimetype, json |-> json, data |-> data,
     text |-> text, headers |-> headers]

NoResponse == Response(0, "", {}, <<>>, "", {})

\* flask.jsonify(obj), status: a JSON object is a set of <<key, value>>
\* pairs, a value the sequence of the pieces its f-string concatenates.
jsonify(obj, status) == Response(status, "application/json", obj, <<>>, "", {})

\* flask.send_file(io.BytesIO(data), mimetype='audio/wav',
\*                 as_attachment=True, download_name='narracao.wav')
send_file(data) ==
    Response(200, "audio/wav", {}, data, "",
             {<<"Content-Disposition", "attachment; filename=narracao.wav">>})

\* CORS(application, origins="*", expose_headers=['X-Model-Used']) adds the
\* CORS headers to every response; it sets no X-Model-Used header itself.
CORS(resp) ==
    [resp EXCEPT !.headers = @ \cup {<<"Access-Control-Allow-Origin", "*">>,
                                     <<"Access-Control-Expose-Headers", "X-Model-Used">>}]

\* api_key, MODEL_TO_USE_FOR_TTS : the module globals (lines 31, 53)
\* genai_api_key : the key the SDK holds after genai.configure (lines 63, 104)
\* pc[i]         : where request i is: "idle" (not yet sent), "recv" (at
\*                 line 96), "json" (at line 107), "call" (at line 135),
\*                 "wait" (inside generate_content), "done" (answered)
\* route[i], body[i] : the request's path and its body
\* calls[i], call_args[i] : upstream calls made by request i, and the
\*                 arguments of the last one
\* upstream[i]   : how the upstream call of request i ended
\* response[i], nresp[i] : the response sent for request i, and how many
VARIABLES api_key, MODEL_TO_USE_FOR_TTS, genai_api_key,
          pc, route, body, calls, call_args, upstream, response, nresp

vars == <<api_key, MODEL_TO_USE_FOR_TTS, genai_api_key,
          pc, route, body, calls, call_args, upstream, response, nresp>>

config == <<api_key, MODEL_TO_USE_FOR_TTS>>

\* Module import: lines 31, 53 and 62-66.
Init ==
    /\ api_key \in ApiKeys
    /\ MODEL_TO_USE_FOR_TTS \in ModelChoices
    /\ genai_api_key = IF Truthy(api_key) THEN api_key ELSE NONE
    /\ pc = [i \in Req |-> "idle"]
    /\ route = [i \in Req |-> ""]
    /\ body = [i \in Req |-> NoBody]
    /\ calls = [i \in Req |-> 0]
    /\ call_args = [i \in Req |-> NoCall]
    /\ upstream = [i \in Req |-> NoOutcome]
    /\ response = [i \in Req |-> NoResponse]
    /\ nresp = [i \in Req |-> 0]

\* The handler returns resp for request i: Flask sends it (through the CORS
\* after-request hook) and the request is over.
Respond(i, resp) ==
    /\ response' = [response EXCEPT ![i] = CORS(resp)]
    /\ nresp' = [nresp EXCEPT ![i] = @ + 1]
    /\ pc' = [pc EXCEPT ![i] = "done"]

\* ------------------------------------------------------------ GET /
home_body == "Servico Ator de IA (narrador-python-api) esta online."

home_response == Response(200, "text/html; charset=utf-8", {}, <<>>, home_body, {})

home(i) ==
    /\ pc[i] = "idle"
    /\ route' = [route EXCEPT ![i] = "/"]
    /\ Respond(i, home_response)
    /\ UNCHANGED <<api_key, MODEL_TO_USE_FOR_TTS, genai_api_key, body, calls,
                   call_args, upstream>>

\* ------------------------------------------------------------ GET /health
health_status(key, model) ==
    {<<"status", <<"ok">>>>}
    \cup (IF ~Truthy(key)
          THEN {<<"warning", <<"GEMINI_API_KEY nao configurada. TTS pode nao funcionar.">>>>}
          ELSE IF model \notin SUPPORTED_TTS_MODELS
          THEN {<<"warning", <<"Modelo TTS '", model,
                               "' nao e um modelo TTS conhecido. Verifique a configuracao.">>>>}
          ELSE {})

\* A health check that reports the missing credential as an outage.
health_response_unavailable(key, model) ==
    jsonify(health_status(key, model), IF Truthy(key) THEN 200 ELSE 503)

\* return jsonify(health_status), 200
health_response(key, model) == jsonify(health_status(key, model), 200)

health_check(i) ==
    /\ pc[i] = "idle"
    /\ route' = [route EXCEPT ![i] = "/health"]
    /\ Respond(i, health_response(api_key, MODEL_TO_USE_FOR_TTS))
    /\ UNCHANGED <<api_key, MODEL_TO_USE_FOR_TTS, genai_api_key, body, calls,
                   call_args, upstream>>

\* ------------------------------------------------- POST /api/generate-audio
POST == "/api/generate-audio"

error_response(message, status) == jsonify({<<"error", message>>}, status)

MSG_API_KEY == <<"Configuracao do servidor incompleta: Chave da API ausente.">>
MSG_NO_JSON == <<"Requisicao invalida, corpo JSON ausente.">>
MSG_NO_TEXT == <<"O texto nao pode estar vazio.">>
MSG_NO_VOICE == <<"O nome da voz nao pode estar vazio.">>
MSG_INTERNAL == <<"Ocorreu um erro interno no servidor.">>

MSG_MODEL(model) ==
    <<"Modelo TTS '", model,
      "' nao e suportado. Por favor, use 'gemini-2.5-pro-preview-tts' ou 'gemini-2.5-flash-preview-tts'.">>

MSG_NO_AUDIO(model) ==
    <<"A API do modelo '", model,
      "' nao retornou dados de audio validos. Verifique a documentacao do Google para este modelo.">>

MSG_ATTRIBUTE(model, exc) ==
    <<"Erro de atributo ao usar o modelo '", model,
      "'. Verifique se este modelo suporta TTS e se a chamada esta correta. Detalhe: ", exc>>

MSG_UPSTREAM(exc) == <<"Falha na comunicacao com a API de TTS do Google: ", exc>>

\* What Flask answers when an exception leaves a view function.
flask_unhandled == Response(500, "text/html; charset=utf-8", {}, <<>>, "Internal Server Error", {})

outer_except_reraise == flask_unhandled

\* except Exception as e: ... return jsonify({"error": ...}), 500
outer_except == error_response(MSG_INTERNAL, 500)

api_key_is_none(key) == key = NONE

\* if not api_key:
api_key_missing(key) == ~Truthy(key)

\* Truth value of the dict get_json() returned: a dict with no key is falsy.
dict_truthy(b) == b.text # NONE \/ b.voice # NONE \/ b.model # NONE

\* Lines 107-126 in a different order: the voice is tested before the text.
validate_payload_voice_first(b, model) ==
    IF b.kind = "malformed" THEN [pass |-> FALSE, resp |-> outer_except]
    ELSE IF b.kind = "null" \/ (b.kind = "object" /\ ~dict_truthy(b))
    THEN [pass |-> FALSE, resp |-> error_response(MSG_NO_JSON, 400)]
    ELSE IF b.kind # "object" THEN [pass |-> FALSE, resp |-> outer_except]
    ELSE IF ~Truthy(b.voice) THEN [pass |-> FALSE, resp |-> error_response(MSG_NO_VOICE, 400)]
    ELSE IF ~Truthy(b.text) THEN [pass |-> FALSE, resp |-> error_response(MSG_NO_TEXT, 400)]
    ELSE IF model \notin SUPPORTED_TTS_MODELS
    THEN [pass |-> FALSE, resp |-> error_response(MSG_MODEL(model), 400)]
    ELSE [pass |-> TRUE, resp |-> NoResponse]

\* Lines 107-126: get_json(), then the guards on the body, the text, the
\* voice and the configured model.  get_json() raising, and data.get on a
\* value that is not a dict, are exceptions the outer handler answers.
validate_payload(b, model) ==
    IF b.kind = "malformed" THEN [pass |-> FALSE, resp |-> outer_except]
    ELSE IF b.kind = "null" \/ (b.kind = "object" /\ ~dict_truthy(b))
    THEN [pass |-> FALSE, resp |-> error_response(MSG_NO_JSON, 400)]
    ELSE IF b.kind # "object" THEN [pass |-> FALSE, resp |-> outer_except]
    ELSE IF ~Truthy(b.text) THEN [pass |-> FALSE, resp |-> error_response(MSG_NO_TEXT, 400)]
    ELSE IF ~Truthy(b.voice) THEN [pass |-> FALSE, resp |-> error_response(MSG_NO_VOICE, 400)]
    ELSE IF model \notin SUPPORTED_TTS_MODELS
    THEN [pass |-> FALSE, resp |-> error_response(MSG_MODEL(model), 400)]
    ELSE [pass |-> TRUE, resp |-> NoResponse]

\* Lines 151-181: the answer to an upstream outcome.  io.BytesIO(None) is an
\* empty buffer; io.BytesIO of a str raises TypeError outside the inner try.
upstream_response(o, model) ==
    CASE o.kind = "attr_error" -> error_response(MSG_ATTRIBUTE(model, o.exc), 502)
      [] o.kind = "error" -> error_response(MSG_UPSTREAM(o.exc), 502)
      [] o.kind = "no_audio" -> error_response(MSG_NO_AUDIO(model), 500)
      [] o.kind = "audio" /\ o.data_kind = "bytes" -> send_file(o.data)
      [] o.kind = "audio" /\ o.data_kind = "none" -> send_file(<<>>)
      [] OTHER -> outer_except

\* A POST request is routed to generate_audio_endpoint.
post_generate_audio(i) ==
    /\ pc[i] = "idle"
    /\ \E b \in Bodies : body' = [body EXCEPT ![i] = b]
    /\ route' = [route EXCEPT ![i] = POST]
    /\ pc' = [pc EXCEPT ![i] = "recv"]
    /\ UNCHANGED <<api_key, MODEL_TO_USE_FOR_TTS, genai_api_key, calls, call_args,
                   upstream, response, nresp>>

\* Lines 96-104: the credential guard, then genai.configure(api_key=api_key).
check_api_key(i) ==
    /\ pc[i] = "recv"
    /\ IF api_key_missing(api_key)
       THEN /\ Respond(i, error_response(MSG_API_KEY, 500))
            /\ UNCHANGED genai_api_key
       ELSE /\ genai_api_key' = api_key
            /\ pc' = [pc EXCEPT ![i] = "json"]
            /\ UNCHANGED <<response, nresp>>
    /\ UNCHANGED <<api_key, MODEL_TO_USE_FOR_TTS, route, body, calls, call_args, upstream>>

\* Lines 107-126.
validate_request(i) ==
    /\ pc[i] = "json"
    /\ LET v == validate_payload(body[i], MODEL_TO_USE_FOR_TTS)
       IN  IF v.pass
           THEN /\ pc' = [pc EXCEPT ![i] = "call"]
                /\ UNCHANGED <<response, nresp>>
           ELSE Respond(i, v.resp)
    /\ UNCHANGED <<api_key, MODEL_TO_USE_FOR_TTS, genai_api_key, route, body, calls,
                   call_args, upstream>>

\* Lines 135-149: genai.generate_content is called, with the key the SDK
\* was last configured with; the handler waits for it.
call_generate_content(i) ==
    /\ pc[i] = "call"
    /\ calls' = [calls EXCEPT ![i] = @ + 1]
    /\ call_args' = [call_args EXCEPT ![i] =
                        [key |-> genai_api_key, model |-> MODEL_TO_USE_FOR_TTS,
                         text |-> body[i].text, voice |-> body[i].voice]]
    /\ pc' = [pc EXCEPT ![i] = "wait"]
    /\ UNCHANGED <<api_key, MODEL_TO_USE_FOR_TTS, genai_api_key, route, body, upstream,
                   response, nresp>>

\* A handler that calls the provider again after a failed call.
generate_content_returns_retry(i) ==
    /\ pc[i] = "wait"
    /\ \E o \in Outcomes :
         IF o.kind \in {"attr_error", "error"} /\ calls[i] < 2
         THEN /\ pc' = [pc EXCEPT ![i] = "call"]
              /\ UNCHANGED <<upstream, response, nresp>>
         ELSE /\ upstream' = [upstream EXCEPT ![i] = o]
              /\ Respond(i, upstream_response(o, MODEL_TO_USE_FOR_TTS))
    /\ UNCHANGED <<api_key, MODEL_TO_USE_FOR_TTS, genai_api_key, route, body, calls, call_args>>

\* A handler that switches the module-level model after a failed call.
generate_content_returns_fallback(i) ==
    /\ pc[i] = "wait"
    /\ \E o \in Outcomes :
         /\ upstream' = [upstream EXCEPT ![i] = o]
         /\ Respond(i, upstream_response(o, MODEL_TO_USE_FOR_TTS))
         /\ MODEL_TO_USE_FOR_TTS' =
                IF o.kind \in {"attr_error", "error"}
                THEN "gemini-2.5-flash-preview-tts" ELSE MODEL_TO_USE_FOR_TTS
    /\ UNCHANGED <<api_key, genai_api_key, route, body, calls, call_args>>

\* Lines 151-186: the call returns or raises, and the handler answers.
generate_content_returns(i) ==
    /\ pc[i] = "wait"
    /\ \E o \in Outcomes :
         /\ upstream' = [upstream EXCEPT ![i] = o]
         /\ Respond(i, upstream_response(o, MODEL_TO_USE_FOR_TTS))
    /\ UNCHANGED <<api_key, MODEL_TO_USE_FOR_TTS, genai_api_key, route, body, calls, call_args>>

\* generate_audio_endpoint run from its first line to its return with no
\* other request in between: the response to body b under configuration
\* (key, model) when the upstream call, if made, ends in outcome o.
generate_audio_alone(key, model, b, o) ==
    IF api_key_missing(key) THEN error_response(MSG_API_KEY, 500)
    ELSE LET v == validate_payload(b, model)
         IN  IF v.pass THEN upstream_response(o, model) ELSE v.resp

Next ==
    \E i \in Req :
        \/ home(i)
        \/ health_check(i)
        \/ post_generate_audio(i)
        \/ check_api_key(i)
        \/ validate_request(i)
        \/ call_generate_content(i)
        \/ generate_content_returns(i)

Spec == Init /\ [][Next]_vars

TypeOK ==
    /\ api_key \in ApiKeys
    /\ MODEL_TO_USE_FOR_TTS \in ModelChoices
    /\ \A i \in Req : pc[i] \in {"idle", "recv", "json", "call", "wait", "done"}

\* =================================================================
\* Properties
\* =================================================================
Answered(i) == pc[i] = "done" /\ route[i] = POST

\* r is a JSON error envelope {"error": <non-empty string>} and nothing else.
IsErrorEnvelope(r) ==
    /\ r.mimetype = "application/json"
    /\ r.data = <<>>
    /\ r.text = ""
    /\ \E p \in r.json : r.json = {p} /\ p[1] = "error" /\ Len(p[2]) > 0

ErrorMessage(r, m) == r.json = {<<"error", m>>}

\* C1: every POST /api/generate-audio ends with exactly one response, which
\* is either 200 carrying the complete upstream audio and no error, or a
\* status in {400, 500, 502} whose body is a JSON error envelope with no
\* audio bytes; no request is answered otherwise (no exception escapes).
C1_OneWellFormedResponse ==
    \A i \in Req :
        /\ nresp[i] = (IF pc[i] = "done" THEN 1 ELSE 0)
        /\ Answered(i) =>
              \/ /\ response[i].status = 200
                 /\ response[i].mimetype = "audio/wav"
                 /\ response[i].json = {}
                 /\ upstream[i].kind = "audio"
                 /\ response[i].data = upstream[i].data
              \/ /\ response[i].status \in {400, 500, 502}
                 /\ IsErrorEnvelope(response[i])

\* C1 witness: one request whose body made get_json() raise was answered 500
\* and another was answered 200 with a non-empty audio body.
C1_Witness ==
    \E i, j \in Req :
        /\ Answered(i) /\ body[i].kind = "malformed" /\ response[i].status = 500
        /\ Answered(j) /\ response[j].status = 200 /\ Len(response[j].data) > 0

\* C2: with GEMINI_API_KEY absent (unset or empty) every answered POST is a
\* 500 JSON error whatever its body, no upstream call is made, and the
\* service goes on accepting and answering requests.
C2_MissingKeyIs500 ==
    ~Truthy(api_key) =>
        \A i \in Req :
            /\ Answered(i) =>
                  /\ response[i].status = 500
                  /\ IsErrorEnvelope(response[i])
                  /\ calls[i] = 0
            /\ pc[i] = "idle" => ENABLED post_generate_audio(i)
            /\ pc[i] = "recv" => ENABLED check_api_key(i)

\* C2 witness: without a credential, a request lacking text and a later
\* complete request were both answered 500.
C2_Witness ==
    /\ ~Truthy(api_key)
    /\ \E i, j \in Req :
          /\ Answered(i) /\ body[i].kind = "object" /\ body[i].text = NONE
          /\ response[i].status = 500
          /\ Answered(j) /\ Truthy(body[j].text) /\ Truthy(body[j].voice)
          /\ response[j].status = 500

\* C3 (as stated): with the credential present, a JSON object body lacking
\* text or voice is answered 400 with the text message when text is
\* missing, else the voice message.
C3_FieldMessage ==
    \A i \in Req :
        (/\ Answered(i) /\ Truthy(api_key) /\ body[i].kind = "object"
         /\ (~Truthy(body[i].text) \/ ~Truthy(body[i].voice)))
        => /\ response[i].status = 400
           /\ ErrorMessage(response[i],
                           IF ~Truthy(body[i].text) THEN MSG_NO_TEXT ELSE MSG_NO_VOICE)

\* C4 (as stated): every 200 response is audio/wav and carries a header
\* X-Model-Used naming the model passed to the provider.
C4_ModelUsedHeader ==
    \A i \in Req :
        (Answered(i) /\ response[i].status = 200)
        => /\ response[i].mimetype = "audio/wav"
           /\ <<"X-Model-Used", call_args[i].model>> \in response[i].headers

\* C5 (as stated): an upstream result with zero audio bytes is answered 500
\* with a JSON error, and no 200 response has a zero-length body.
C5_EmptyAudioIs500 ==
    \A i \in Req :
        /\ (/\ Answered(i)
            /\ \/ upstream[i].kind = "no_audio"
               \/ upstream[i].kind = "audio" /\ upstream[i].data_kind = "bytes"
                                             /\ Len(upstream[i].data) = 0)
           => response[i].status = 500 /\ IsErrorEnvelope(response[i])
        /\ Answered(i) /\ response[i].status = 200 => Len(response[i].data) > 0

\* Little-endian 32-bit field of s starting after offset off.
LE32(s, off) ==
    s[off + 1] + 256 * s[off + 2] + 65536 * s[off + 3] + 16777216 * s[off + 4]

\* C6 (as stated): a 200 body is a 44-byte RIFF/WAVE header followed by the
\* upstream payload: length 44 + payload length, chunk_size (offset 4) 36 +
\* payload length, data_size (offset 40) the payload length.
C6_WavBody ==
    \A i \in Req :
        (Answered(i) /\ response[i].status = 200)
        => LET wav == response[i].data
               pcm == upstream[i].data
           IN  /\ Len(wav) = 44 + Len(pcm)
               /\ SubSeq(wav, 45, Len(wav)) = pcm
               /\ LE32(wav, 4) = 36 + Len(pcm)
               /\ LE32(wav, 40) = Len(pcm)

\* C7: a request calls the provider at most once; when that call raises or
\* returns no audio the request is over at once, answered 502 or 500 with a
\* JSON error, having made exactly one call.
C7_NoRetry ==
    \A i \in Req :
        /\ calls[i] <= 1
        /\ upstream[i].kind # "pending" => pc[i] = "done"
        /\ upstream[i].kind \in {"attr_error", "error", "no_audio"}
           => /\ calls[i] = 1
              /\ response[i].status \in {500, 502}
              /\ IsErrorEnvelope(response[i])

\* C7 witness: a request whose single upstream call raised was answered 502.
C7_Witness ==
    \E i \in Req :
        /\ Answered(i) /\ upstream[i].kind = "error"
        /\ calls[i] = 1 /\ response[i].status = 502

\* C8 (as stated): GET / and GET /health answer 200 with a plain-text body,
\* which for /health is the string "healthy".
C8_PlainTextHealthy ==
    \A i \in Req :
        (pc[i] = "done" /\ route[i] \in {"/", "/health"})
        => /\ response[i].status = 200
           /\ response[i].json = {}
           /\ response[i].text # ""
           /\ route[i] = "/health" => response[i].text = "healthy"

\* C8 (amended): GET / answers 200 with the plain liveness string; GET
\* /health answers 200 with a JSON object whose "status" is "ok", with or
\* without the credential.
C8_LivenessRoutes ==
    \A i \in Req :
        /\ (pc[i] = "done" /\ route[i] = "/")
           => /\ response[i].status = 200
              /\ response[i].json = {}
              /\ response[i].text = home_body
        /\ (pc[i] = "done" /\ route[i] = "/health")
           => /\ response[i].status = 200
              /\ response[i].mimetype = "application/json"
              /\ response[i].text = ""
              /\ <<"status", <<"ok">>>> \in response[i].json

\* C8 witness: both routes were answered while the credential was absent.
C8_Witness ==
    /\ ~Truthy(api_key)
    /\ \E i, j \in Req :
          /\ pc[i] = "done" /\ route[i] = "/"
          /\ pc[j] = "done" /\ route[j] = "/health"

\* C9: under every interleaving, the response to each POST is the one the
\* handler gives when run alone on the process configuration, the request's
\* own body and its own upstream result; its upstream call carries its own
\* text and voice and the process's key and model; and no step changes
\* api_key or MODEL_TO_USE_FOR_TTS.
C9_Isolation ==
    /\ [](\A i \in Req :
            /\ Answered(i) =>
                  response[i] = CORS(generate_audio_alone(api_key, MODEL_TO_USE_FOR_TTS,
                                                          body[i], upstream[i]))
            /\ calls[i] > 0 =>
                  call_args[i] = [key |-> api_key, model |-> MODEL_TO_USE_FOR_TTS,
                                  text |-> body[i].text, voice |-> body[i].voice])
    /\ [][config' = config]_vars

\* C9 witness: one request has been answered with audio for its own text
\* while another request, with a different text, is inside its upstream call.
C9_Witness ==
    \E i, j \in Req :
        /\ Answered(i) /\ call_args[i].text = "hello" /\ response[i].status = 200
        /\ pc[j] = "wait" /\ call_args[j].text = "ola"

\* The guards of generate_audio_endpoint in their order; "none" when all pass.
FirstFailingGuard(key, b, model) ==
    IF ~Truthy(key) THEN "credential"
    ELSE IF b.kind = "null" \/ (b.text = NONE /\ b.voice = NONE /\ b.model = NONE) THEN "json"
    ELSE IF ~Truthy(b.text) THEN "text"
    ELSE IF ~Truthy(b.voice) THEN "voice"
    ELSE IF model \notin SUPPORTED_TTS_MODELS THEN "model"
    ELSE "none"

GuardAnswer(g, model) ==
    CASE g = "credential" -> error_response(MSG_API_KEY, 500)
      [] g = "json" -> error_response(MSG_NO_JSON, 400)
      [] g = "text" -> error_response(MSG_NO_TEXT, 400)
      [] g = "voice" -> error_response(MSG_NO_VOICE, 400)
      [] g = "model" -> error_response(MSG_MODEL(model), 400)

\* C10: the provider is called only when every guard passes, and a request
\* that fails a guard is answered by the first failing guard in the order
\* credential, JSON body, text, voice, model (500 for the credential, 400
\* for the others) without any upstream call.
C10_GuardOrder ==
    \A i \in Req :
        LET g == FirstFailingGuard(api_key, body[i], MODEL_TO_USE_FOR_TTS)
        IN  /\ calls[i] > 0 => g = "none" /\ body[i].kind = "object"
            /\ (/\ Answered(i) /\ g # "none"
                /\ (g = "credential" \/ body[i].kind \in {"null", "object"}))
               => /\ calls[i] = 0
                  /\ upstream[i].kind = "pending"
                  /\ response[i] = CORS(GuardAnswer(g, MODEL_TO_USE_FOR_TTS))

\* C10 witness: with the credential present and an unsupported model
\* configured, a body lacking both text and voice was answered by the text
\* guard.
C10_Witness ==
    \E i \in Req :
        /\ Answered(i) /\ Truthy(api_key)
        /\ MODEL_TO_USE_FOR_TTS \notin SUPPORTED_TTS_MODELS
        /\ body[i] = Body("object", NONE, NONE, "m")
        /\ ErrorMessage(response[i], MSG_NO_TEXT)

====
